---- MODULE Spec2Model ----
(***************************************************************************)
(* Model of scrapy.core.downloader.middleware.DownloaderMiddlewareManager: *)
(* the registration of the middleware methods, the three chained           *)
(* functions of download() (process_request, process_exception,            *)
(* process_response) and the accounting of the size of the live responses. *)
(*                                                                         *)
(* One action is the code that runs between two suspension points of a     *)
(* run (a "yield" of an inlineCallbacks function): it receives the result  *)
(* of the awaited method, validates it, and runs on, through the deferred  *)
(* chain of download(), until the next method is called or the run ends.   *)
(***************************************************************************)
EXTENDS Integers, Sequences, FiniteSets, TLC

\* Bounds of the model.
MaxMw == 2        \* the most middlewares that are registered
MaxCalls == 2     \* the most download() calls observed one after the other
NumRuns == 2      \* the download() calls that may be in progress together
NumResp == 2      \* the Response objects that may exist together
MaxSlots == 3     \* the most feeds that are configured
MaxItems == 3     \* the most items that are scraped
NumReqs == 3      \* the requests that the duplicates filter is asked about
NumFps == 2       \* the fingerprints that these requests have
MaxSeen == 3      \* the most request_seen calls
MaxOffsite == 3   \* the most requests passed to the offsite middleware

Resps == 1..NumResp
Caps == SUBSET {"process_request", "process_response", "process_exception"}

\* len(response.body): the Response object r carries a body of r bytes.
BodyLen(r) == r

\* The request download() was called with, and another one a method makes.
OrigRequest == 0
NewRequest == 1

(***************************************************************************)
(* Values that methods return and deferreds fire with.                     *)
(***************************************************************************)
NoHandler == <<"", 0>>
Val(k, id, exc, by) == [k |-> k, id |-> id, exc |-> exc, by |-> by]
NoneV == Val("None", 0, "", NoHandler)
Resp(r) == Val("Response", r, "", NoHandler)
Req(q) == Val("Request", q, "", NoHandler)
Other == Val("Other", 42, "", NoHandler)
Failure(exc, by) == Val("Failure", 0, exc, by)
Pending == Val("pending", 0, "", NoHandler)

IsResponse(v) == v.k = "Response"
IsRequest(v) == v.k = "Request"
IsFailure(v) == v.k = "Failure"

VARIABLES
    methods,                \* self.methods: the three lists of methods
    middlewares,            \* self.middlewares: the methods each registered
                            \* middleware has, in registration order
    built,                  \* the manager's __init__ has returned
    response_active_size,   \* self.response_active_size
    tracked,                \* self._tracked_responses (a WeakSet)
    finalizers,             \* finalize(response, ...): the bytes the callbacks
                            \* registered on each response will discount
    discounting,            \* the value that a running release callback has
                            \* computed for the counter and not yet stored:
                            \* <<>> when none is running
    live,                   \* the Response objects that exist
    ext,                    \* those referenced from outside the manager's runs
    runs,                   \* the download() calls: one record per run
    last,                   \* history: what the last step did to the size
    contrib,                \* history: times a live response's size was added
    hist,                   \* history: what the observed runs did
    feeds,                  \* FeedExporter.feeds: the store_empty option of
                            \* each configured feed
    slots,                  \* FeedExporter.slots: one record per _FeedSlot
    spider,                 \* the signals that the spider has sent
    fingerprints,           \* RFPDupeFilter.fingerprints
    file,                   \* RFPDupeFilter.file, with the lines of
                            \* requests.seen
    seen,                   \* history: the request_seen calls
    host_regex,             \* OffsiteMiddleware.host_regex
    domains_seen,           \* OffsiteMiddleware.domains_seen
    stats,                  \* the stats offsite/filtered, offsite/domains
    offsite                 \* history: the process_request calls of the
                            \* offsite middleware

tracker == <<response_active_size, tracked, finalizers, contrib, discounting>>
manager == <<methods, middlewares, built, response_active_size, tracked,
             finalizers, discounting, live, ext, runs, last, contrib, hist>>
feedexport == <<feeds, slots, spider>>
dupefilter == <<fingerprints, file, seen>>
offsitemw == <<host_regex, domains_seen, stats, offsite>>
vars == <<manager, feedexport, dupefilter, offsitemw>>

Runs == DOMAIN runs

\* A run: pc is the function whose yield the run is suspended at, i the index
\* of the awaited method in its list, arg the request, failure or response
\* passed to it.
IdleRun == [pc |-> "idle", i |-> 0, arg |-> NoneV]

\* The history of a run: calls, the download() calls started in its place;
\* log, the calls the current one made, with arguments and results; out,
\* the value the deferred of download() fired with; delta, the bytes its
\* steps added to response_active_size; tracks, the responses it passed to
\* _count_response_size; added, those of them that were not in the WeakSet.
NoHist ==
    [calls |-> 0, log |-> <<>>, out |-> NoneV, delta |-> 0, tracks |-> <<>>,
     added |-> <<>>]

\* What a step did to the size of the live responses: op is "track" when it
\* passed the response r to _count_response_size (was: r was in the WeakSet
\* before), "release" when it collected r, "none" otherwise.
NoOp == [op |-> "none", r |-> 0, was |-> FALSE]

NoMethods == [process_request |-> <<>>, process_response |-> <<>>,
              process_exception |-> <<>>]

\* The feed exporter, the duplicates filter and the offsite middleware are
\* not constructed.
NoSlots == <<>>
NoFeedExporter == feeds = <<>> /\ slots = NoSlots /\ spider = "none"

NoFile == [path |-> FALSE, closed |-> FALSE, lines |-> <<>>]
NoCalls == [loaded |-> {}, calls |-> <<>>]
NoDupeFilter == fingerprints = {} /\ file = NoFile /\ seen = NoCalls

NoRegex == [set |-> FALSE, all |-> FALSE, domains |-> {}]
NoStats == [filtered |-> 0, domains |-> 0]
NoOffsite ==
    /\ host_regex = NoRegex
    /\ domains_seen = {}
    /\ stats = NoStats
    /\ offsite = <<>>

\* Before the manager is constructed; one download() call is observed at a
\* time.
Init ==
    /\ methods = NoMethods
    /\ middlewares = <<>>
    /\ built = FALSE
    /\ response_active_size = 0
    /\ tracked = {}
    /\ finalizers = [r \in Resps |-> 0]
    /\ discounting = <<>>
    /\ live = {}
    /\ ext = {}
    /\ runs = [n \in {1} |-> IdleRun]
    /\ last = NoOp
    /\ contrib = [r \in Resps |-> 0]
    /\ hist = [n \in {1} |-> NoHist]
    /\ NoFeedExporter /\ NoDupeFilter /\ NoOffsite

(***************************************************************************)
(* Registration: _add_middleware.                                          *)
(***************************************************************************)
\* Mutant: process_response is appended like process_request.
AddMiddlewareMethodsAppend(ms, mw, caps) ==
    [process_request |->
        IF "process_request" \in caps
        THEN Append(ms.process_request, mw) ELSE ms.process_request,
     process_response |->
        IF "process_response" \in caps
        THEN Append(ms.process_response, mw) ELSE ms.process_response,
     process_exception |->
        IF "process_exception" \in caps
        THEN <<mw>> \o ms.process_exception ELSE ms.process_exception]

\* Mutant: process_request is registered twice.
AddMiddlewareMethodsTwice(ms, mw, caps) ==
    [process_request |->
        IF "process_request" \in caps
        THEN ms.process_request \o <<mw, mw>> ELSE ms.process_request,
     process_response |->
        IF "process_response" \in caps
        THEN <<mw>> \o ms.process_response ELSE ms.process_response,
     process_exception |->
        IF "process_exception" \in caps
        THEN <<mw>> \o ms.process_exception ELSE ms.process_exception]

AddMiddlewareMethods(ms, mw, caps) ==
    [process_request |->
        IF "process_request" \in caps
        THEN Append(ms.process_request, mw) ELSE ms.process_request,
     process_response |->
        IF "process_response" \in caps
        THEN <<mw>> \o ms.process_response ELSE ms.process_response,
     process_exception |->
        IF "process_exception" \in caps
        THEN <<mw>> \o ms.process_exception ELSE ms.process_exception]

\* MiddlewareManager.__init__ registers the middlewares one by one, before
\* the manager is used.
AddMiddleware(caps) ==
    /\ ~built
    /\ Len(middlewares) < MaxMw
    /\ middlewares' = Append(middlewares, caps)
    /\ methods' = AddMiddlewareMethods(methods, Len(middlewares) + 1, caps)
    /\ UNCHANGED <<built, tracker, live, ext, runs, last>>
    /\ UNCHANGED <<feedexport, dupefilter, offsitemw>>

\* DownloaderMiddlewareManager.__init__ returns: the counter is 0 and the
\* WeakSet empty.
ManagerInit ==
    /\ ~built
    /\ built' = TRUE
    /\ response_active_size' = 0
    /\ tracked' = {}
    /\ UNCHANGED <<methods, middlewares, finalizers, contrib, discounting, live,
                   ext, runs, last>>
    /\ UNCHANGED <<feedexport, dupefilter, offsitemw>>

(***************************************************************************)
(* The size of the live responses: _count_response_size and the finalizer  *)
(* _discount_response_size.                                                *)
(***************************************************************************)
\* Mutant: no test of membership before counting.
CountResponseSizeNoCheck(r) ==
    /\ tracked' = tracked \cup {r}
    /\ response_active_size' = response_active_size + BodyLen(r)
    /\ finalizers' = [finalizers EXCEPT ![r] = @ + BodyLen(r)]
    /\ contrib' = [contrib EXCEPT ![r] = @ + 1]
    /\ UNCHANGED discounting

\* Mutant: the response is counted and not added to the WeakSet.
CountResponseSizeNoAdd(r) ==
    IF r \in tracked
    THEN UNCHANGED tracker
    ELSE /\ tracked' = tracked
         /\ response_active_size' = response_active_size + BodyLen(r)
         /\ finalizers' = [finalizers EXCEPT ![r] = @ + BodyLen(r)]
         /\ contrib' = [contrib EXCEPT ![r] = @ + 1]
         /\ UNCHANGED discounting

CountResponseSize(r) ==
    IF r \in tracked
    THEN UNCHANGED tracker
    ELSE /\ tracked' = tracked \cup {r}
         /\ response_active_size' = response_active_size + BodyLen(r)
         /\ finalizers' = [finalizers EXCEPT ![r] = @ + BodyLen(r)]
         /\ contrib' = [contrib EXCEPT ![r] = @ + 1]
         /\ UNCHANGED discounting

\* Mutant: the finalizer discounts nothing.
DiscountResponseSizeNothing(size) == response_active_size

\* Mutant: the release callback discounts the size twice.
DiscountResponseSizeTwice(size) == response_active_size - 2 * size

DiscountResponseSize(size) == response_active_size - size

\* A run holds the response it passed to the response method it awaits.
Holds(n, r) == runs[n].pc = "process_response" /\ runs[n].arg = Resp(r)
Reachable(r) == r \in ext \/ \E n \in Runs : Holds(n, r)

\* The code outside the manager drops its references to a response.
Drop(r) ==
    /\ r \in ext
    /\ ext' = ext \ {r}
    /\ last' = NoOp
    /\ UNCHANGED <<methods, middlewares, built, tracker, live, runs>>
    /\ UNCHANGED <<feedexport, dupefilter, offsitemw>>

\* An unreachable response is collected: the WeakSet forgets it and the
\* callbacks that finalize() registered on it run.
Finalize(r) ==
    /\ r \in live
    /\ ~Reachable(r)
    /\ live' = live \ {r}
    /\ tracked' = tracked \ {r}
    /\ response_active_size' = DiscountResponseSize(finalizers[r])
    /\ finalizers' = [finalizers EXCEPT ![r] = 0]
    /\ contrib' = [contrib EXCEPT ![r] = 0]
    /\ last' = [op |-> "release", r |-> r, was |-> r \in tracked]
    /\ UNCHANGED <<methods, middlewares, built, discounting, ext, runs>>
    /\ UNCHANGED <<feedexport, dupefilter, offsitemw>>

\* An unreachable response is collected in a thread that is not the
\* reactor's: the WeakSet forgets it and the callback that finalize()
\* registered on it starts and reads the counter
\* ("self.response_active_size -= size": the value is read, the difference
\* computed, and stored in a later step).
FinalizeRead(r) ==
    /\ r \in live
    /\ ~Reachable(r)
    /\ discounting = <<>>
    /\ live' = live \ {r}
    /\ tracked' = tracked \ {r}
    /\ discounting' = IF r \in tracked
                      THEN <<DiscountResponseSize(finalizers[r])>> ELSE <<>>
    /\ finalizers' = [finalizers EXCEPT ![r] = 0]
    /\ contrib' = [contrib EXCEPT ![r] = 0]
    /\ last' = [op |-> "release", r |-> r, was |-> r \in tracked]
    /\ UNCHANGED <<methods, middlewares, built, response_active_size, ext, runs>>
    /\ UNCHANGED <<feedexport, dupefilter, offsitemw>>

\* The release callback stores the value it computed.
FinalizeWrite ==
    /\ discounting # <<>>
    /\ response_active_size' = discounting[1]
    /\ discounting' = <<>>
    /\ UNCHANGED <<methods, middlewares, built, tracked, finalizers, contrib,
                   live, ext, runs, last>>
    /\ UNCHANGED <<feedexport, dupefilter, offsitemw>>

(***************************************************************************)
(* download(): the chain process_request -> (errback) process_exception -> *)
(* (callback) process_response. The operators below take a run record and  *)
(* give the step that resumes it: [run |-> the record at the next          *)
(* suspension point or at the end, track |-> the response passed to        *)
(* _count_response_size on the way, or 0, out |-> the value the deferred   *)
(* of download() fires with, if the run ends].                             *)
(***************************************************************************)
Handler(rr) ==
    <<rr.pc, IF rr.pc \in DOMAIN methods THEN methods[rr.pc][rr.i] ELSE 0>>

\* Mutant: "if isinstance(result, Request):" in the place of "if result:".
TruthyRequestOnly(v) == v.k = "Request"

\* "if result:": None is false, Response and Request objects are true.
Truthy(v) == v.k # "None"

\* The run calls a method (or download_func) and suspends at the yield.
Call(rr, fn, i, arg) == [pc |-> fn, i |-> i, arg |-> arg, out |-> NoneV]

\* The deferred that download() returned fires with v.
Fire(rr, v) == [pc |-> "done", i |-> 0, arg |-> NoneV, out |-> v]

Step(rr, r) ==
    [run |-> [pc |-> rr.pc, i |-> rr.i, arg |-> rr.arg], track |-> r,
     out |-> rr.out]

\* Mutant: process_response does not return a Request it is given at once.
ProcessResponseNoRequestCheck(rr, v) ==
    IF v.k = "None"
    THEN Fire(rr, Failure("TypeError", NoHandler))
    ELSE IF methods.process_response = <<>>
    THEN Fire(rr, v)
    ELSE Call(rr, "process_response", 1, v)

\* process_response(response), up to its first yield.
ProcessResponse(rr, v) ==
    IF v.k = "None"
    THEN Fire(rr, Failure("TypeError", NoHandler))
    ELSE IF IsRequest(v)
    THEN Fire(rr, v)
    ELSE IF methods.process_response = <<>>
    THEN Fire(rr, v)
    ELSE Call(rr, "process_response", 1, v)

\* Mutant: a Request that a response method returns does not end the loop.
ProcessResponseResultNoReturn(rr, v) ==
    IF IsFailure(v)
    THEN Step(Fire(rr, v), 0)
    ELSE IF ~(IsResponse(v) \/ IsRequest(v))
    THEN Step(Fire(rr, Failure("_InvalidOutput", Handler(rr))), 0)
    ELSE IF rr.i < Len(methods.process_response)
    THEN Step(Call(rr, "process_response", rr.i + 1, v),
              IF IsResponse(v) THEN v.id ELSE 0)
    ELSE Step(Fire(rr, v), IF IsResponse(v) THEN v.id ELSE 0)

\* Mutant: the next response method is called with the response the callback
\* was given, not with the one the method before it returned.
ProcessResponseResultSameInput(rr, v) ==
    IF IsFailure(v)
    THEN Step(Fire(rr, v), 0)
    ELSE IF ~(IsResponse(v) \/ IsRequest(v))
    THEN Step(Fire(rr, Failure("_InvalidOutput", Handler(rr))), 0)
    ELSE IF IsRequest(v)
    THEN Step(Fire(rr, v), 0)
    ELSE IF rr.i < Len(methods.process_response)
    THEN Step(Call(rr, "process_response", rr.i + 1, rr.arg), v.id)
    ELSE Step(Fire(rr, v), v.id)

\* process_response resumes with the result v of the method it awaited.
ProcessResponseResult(rr, v) ==
    IF IsFailure(v)
    THEN Step(Fire(rr, v), 0)
    ELSE IF ~(IsResponse(v) \/ IsRequest(v))
    THEN Step(Fire(rr, Failure("_InvalidOutput", Handler(rr))), 0)
    ELSE IF IsRequest(v)
    THEN Step(Fire(rr, v), 0)
    ELSE IF rr.i < Len(methods.process_response)
    THEN Step(Call(rr, "process_response", rr.i + 1, v), v.id)
    ELSE Step(Fire(rr, v), v.id)

\* Mutant: without exception methods the failure goes on to the callback.
ProcessExceptionToCallback(rr, f) ==
    IF methods.process_exception = <<>>
    THEN ProcessResponse(rr, NoneV)
    ELSE Call(rr, "process_exception", 1, f)

\* process_exception(failure), up to its first yield. A failure that the
\* errback returns skips the callback process_response.
ProcessException(rr, f) ==
    IF methods.process_exception = <<>>
    THEN Fire(rr, f)
    ELSE Call(rr, "process_exception", 1, f)

\* Mutant: process_exception validates like process_response: None is
\* refused.
ProcessExceptionResultStrict(rr, v) ==
    IF IsFailure(v)
    THEN Step(Fire(rr, v), 0)
    ELSE IF ~(IsResponse(v) \/ IsRequest(v))
    THEN Step(Fire(rr, Failure("_InvalidOutput", Handler(rr))), 0)
    ELSE Step(ProcessResponse(rr, v), IF IsResponse(v) THEN v.id ELSE 0)

\* Mutant: download_func is called again when no exception method has
\* returned a value.
ProcessExceptionResultRetry(rr, v) ==
    IF IsFailure(v)
    THEN Step(Fire(rr, v), 0)
    ELSE IF v.k # "None" /\ ~(IsResponse(v) \/ IsRequest(v))
    THEN Step(Fire(rr, Failure("_InvalidOutput", Handler(rr))), 0)
    ELSE IF Truthy(v)
    THEN Step(ProcessResponse(rr, v), IF IsResponse(v) THEN v.id ELSE 0)
    ELSE IF rr.i < Len(methods.process_exception)
    THEN Step(Call(rr, "process_exception", rr.i + 1, rr.arg), 0)
    ELSE Step(Call(rr, "download_func", 0, Req(OrigRequest)), 0)

\* Mutant: process_exception returns None, not the failure, when no
\* exception method has returned a value.
ProcessExceptionResultReturnsNone(rr, v) ==
    IF IsFailure(v)
    THEN Step(Fire(rr, v), 0)
    ELSE IF v.k # "None" /\ ~(IsResponse(v) \/ IsRequest(v))
    THEN Step(Fire(rr, Failure("_InvalidOutput", Handler(rr))), 0)
    ELSE IF Truthy(v)
    THEN Step(ProcessResponse(rr, v), IF IsResponse(v) THEN v.id ELSE 0)
    ELSE IF rr.i < Len(methods.process_exception)
    THEN Step(Call(rr, "process_exception", rr.i + 1, rr.arg), 0)
    ELSE Step(ProcessResponse(rr, NoneV), 0)

\* Mutant: a Request that an exception method returns does not end the
\* loop.
ProcessExceptionResultNoReturn(rr, v) ==
    IF IsFailure(v)
    THEN Step(Fire(rr, v), 0)
    ELSE IF v.k # "None" /\ ~(IsResponse(v) \/ IsRequest(v))
    THEN Step(Fire(rr, Failure("_InvalidOutput", Handler(rr))), 0)
    ELSE IF IsResponse(v)
    THEN Step(ProcessResponse(rr, v), v.id)
    ELSE IF rr.i < Len(methods.process_exception)
    THEN Step(Call(rr, "process_exception", rr.i + 1, rr.arg), 0)
    ELSE Step(Fire(rr, IF IsRequest(v) THEN v ELSE rr.arg), 0)

\* Mutant: what an exception method returns is the output of the run,
\* without process_response.
ProcessExceptionResultNoResponsePhase(rr, v) ==
    IF IsFailure(v)
    THEN Step(Fire(rr, v), 0)
    ELSE IF v.k # "None" /\ ~(IsResponse(v) \/ IsRequest(v))
    THEN Step(Fire(rr, Failure("_InvalidOutput", Handler(rr))), 0)
    ELSE IF Truthy(v)
    THEN Step(Fire(rr, v), IF IsResponse(v) THEN v.id ELSE 0)
    ELSE IF rr.i < Len(methods.process_exception)
    THEN Step(Call(rr, "process_exception", rr.i + 1, rr.arg), 0)
    ELSE Step(Fire(rr, rr.arg), 0)

\* Mutant: an exception that an exception method raises is passed to the
\* next exception method.
ProcessExceptionResultFaultGoesOn(rr, v) ==
    IF IsFailure(v) /\ rr.i < Len(methods.process_exception)
    THEN Step(Call(rr, "process_exception", rr.i + 1, v), 0)
    ELSE IF IsFailure(v)
    THEN Step(Fire(rr, v), 0)
    ELSE IF v.k # "None" /\ ~(IsResponse(v) \/ IsRequest(v))
    THEN Step(Fire(rr, Failure("_InvalidOutput", Handler(rr))), 0)
    ELSE IF Truthy(v)
    THEN Step(ProcessResponse(rr, v), IF IsResponse(v) THEN v.id ELSE 0)
    ELSE IF rr.i < Len(methods.process_exception)
    THEN Step(Call(rr, "process_exception", rr.i + 1, rr.arg), 0)
    ELSE Step(Fire(rr, rr.arg), 0)

\* process_exception resumes with the result v of the method it awaited.
ProcessExceptionResult(rr, v) ==
    IF IsFailure(v)
    THEN Step(Fire(rr, v), 0)
    ELSE IF v.k # "None" /\ ~(IsResponse(v) \/ IsRequest(v))
    THEN Step(Fire(rr, Failure("_InvalidOutput", Handler(rr))), 0)
    ELSE IF Truthy(v)
    THEN Step(ProcessResponse(rr, v), IF IsResponse(v) THEN v.id ELSE 0)
    ELSE IF rr.i < Len(methods.process_exception)
    THEN Step(Call(rr, "process_exception", rr.i + 1, rr.arg), 0)
    ELSE Step(Fire(rr, rr.arg), 0)

\* process_request(request), up to its first yield.
ProcessRequest(rr) ==
    IF methods.process_request = <<>>
    THEN Call(rr, "download_func", 0, Req(OrigRequest))
    ELSE Call(rr, "process_request", 1, Req(OrigRequest))

\* Mutant: what a request method returns is not validated.
ProcessRequestResultNoValidate(rr, v) ==
    IF IsFailure(v)
    THEN Step(ProcessException(rr, v), 0)
    ELSE IF Truthy(v)
    THEN Step(ProcessResponse(rr, v), IF IsResponse(v) THEN v.id ELSE 0)
    ELSE IF rr.i < Len(methods.process_request)
    THEN Step(Call(rr, "process_request", rr.i + 1, Req(OrigRequest)), 0)
    ELSE Step(Call(rr, "download_func", 0, Req(OrigRequest)), 0)

\* Mutant: an IgnoreRequest that a request method raises is passed over, as
\* if the method had returned None.
ProcessRequestResultIgnoreSwallowed(rr, v) ==
    IF IsFailure(v) /\ v.exc # "IgnoreRequest"
    THEN Step(ProcessException(rr, v), 0)
    ELSE IF v.k \notin {"None", "Failure"} /\ ~(IsResponse(v) \/ IsRequest(v))
    THEN Step(ProcessException(rr, Failure("_InvalidOutput", Handler(rr))), 0)
    ELSE IF ~IsFailure(v) /\ Truthy(v)
    THEN Step(ProcessResponse(rr, v), IF IsResponse(v) THEN v.id ELSE 0)
    ELSE IF rr.i < Len(methods.process_request)
    THEN Step(Call(rr, "process_request", rr.i + 1, Req(OrigRequest)), 0)
    ELSE Step(Call(rr, "download_func", 0, Req(OrigRequest)), 0)

\* Mutant: a Response that a request method returns is not counted.
ProcessRequestResultNoTrack(rr, v) ==
    IF IsFailure(v)
    THEN Step(ProcessException(rr, v), 0)
    ELSE IF v.k # "None" /\ ~(IsResponse(v) \/ IsRequest(v))
    THEN Step(ProcessException(rr, Failure("_InvalidOutput", Handler(rr))), 0)
    ELSE IF Truthy(v)
    THEN Step(ProcessResponse(rr, v), 0)
    ELSE IF rr.i < Len(methods.process_request)
    THEN Step(Call(rr, "process_request", rr.i + 1, Req(OrigRequest)), 0)
    ELSE Step(Call(rr, "download_func", 0, Req(OrigRequest)), 0)

\* Mutant: an exception that a request method raises ends the run.
ProcessRequestResultFaultFatal(rr, v) ==
    IF IsFailure(v)
    THEN Step(Fire(rr, v), 0)
    ELSE IF v.k # "None" /\ ~(IsResponse(v) \/ IsRequest(v))
    THEN Step(ProcessException(rr, Failure("_InvalidOutput", Handler(rr))), 0)
    ELSE IF Truthy(v)
    THEN Step(ProcessResponse(rr, v), IF IsResponse(v) THEN v.id ELSE 0)
    ELSE IF rr.i < Len(methods.process_request)
    THEN Step(Call(rr, "process_request", rr.i + 1, Req(OrigRequest)), 0)
    ELSE Step(Call(rr, "download_func", 0, Req(OrigRequest)), 0)

\* process_request resumes with the result v of the method it awaited.
ProcessRequestResult(rr, v) ==
    IF IsFailure(v)
    THEN Step(ProcessException(rr, v), 0)
    ELSE IF v.k # "None" /\ ~(IsResponse(v) \/ IsRequest(v))
    THEN Step(ProcessException(rr, Failure("_InvalidOutput", Handler(rr))), 0)
    ELSE IF Truthy(v)
    THEN Step(ProcessResponse(rr, v), IF IsResponse(v) THEN v.id ELSE 0)
    ELSE IF rr.i < Len(methods.process_request)
    THEN Step(Call(rr, "process_request", rr.i + 1, Req(OrigRequest)), 0)
    ELSE Step(Call(rr, "download_func", 0, Req(OrigRequest)), 0)

\* process_request resumes with the outcome v of download_func.
DownloadFuncResult(rr, v) ==
    IF IsFailure(v)
    THEN Step(ProcessException(rr, v), 0)
    ELSE Step(ProcessResponse(rr, v), 0)

(***************************************************************************)
(* What the methods and download_func may give.                            *)
(***************************************************************************)
\* A method returns a response it can reach or one it creates (the new
\* object takes the first free identity).
NewResponse == {r \in Resps \ live : \A q \in Resps \ live : r <= q}
Returnable(rr) ==
    {r \in Resps : r \in NewResponse \/ r \in ext
                   \/ (rr.pc = "process_response" /\ rr.arg = Resp(r))}

Raised(exc) == Failure(exc, NoHandler)

RequestMethodResults(rr) ==
    {NoneV, Req(NewRequest), Other, Raised("IgnoreRequest"), Raised("StageError")}
    \cup {Resp(r) : r \in Returnable(rr)}

ExceptionMethodResults(rr) ==
    {NoneV, Req(NewRequest), Other, Raised("StageError")}
    \cup {Resp(r) : r \in Returnable(rr)}

ResponseMethodResults(rr) ==
    {NoneV, Req(NewRequest), Other, Raised("StageError")}
    \cup {Resp(r) : r \in Returnable(rr)}

DownloadFuncResults(rr) ==
    {Raised("DownloadError")} \cup {Resp(r) : r \in Returnable(rr)}

(***************************************************************************)
(* The steps of a run.                                                     *)
(***************************************************************************)
\* The run n, resumed with v, runs to s.run, tracking s.track on the way.
\* A response that v brings into being is referenced by its maker, and the
\* response a run ends with by the caller of download().
Resume(n, v, s) ==
    /\ IF s.track # 0
       THEN CountResponseSize(s.track)
       ELSE UNCHANGED tracker
    /\ last' = IF s.track # 0
               THEN [op |-> "track", r |-> s.track, was |-> s.track \in tracked]
               ELSE NoOp
    /\ runs' = [runs EXCEPT ![n] = s.run]
    /\ live' = live \cup (IF IsResponse(v) THEN {v.id} ELSE {})
    /\ ext' = ext \cup (IF IsResponse(v) /\ v.id \notin live THEN {v.id} ELSE {})
                  \cup (IF IsResponse(s.out) THEN {s.out.id} ELSE {})
    /\ UNCHANGED <<methods, middlewares, built>>
    /\ UNCHANGED <<feedexport, dupefilter, offsitemw>>

\* download(download_func, request, spider) is called: a new run, in the
\* place of one that has ended.
Download(n) ==
    /\ built
    /\ runs[n].pc \in {"idle", "done"}
    /\ runs' = [runs EXCEPT ![n] = Step(ProcessRequest(IdleRun), 0).run]
    /\ last' = NoOp
    /\ UNCHANGED <<methods, middlewares, built, tracker, live, ext>>
    /\ UNCHANGED <<feedexport, dupefilter, offsitemw>>

RequestMethodReturns(n, v) ==
    /\ runs[n].pc = "process_request"
    /\ v \in RequestMethodResults(runs[n])
    /\ Resume(n, v, ProcessRequestResult(runs[n], v))

\* Mutant: download_func gives its outcome only while no other run is
\* suspended.
DownloadFuncReturnsBlocking(n, v) ==
    /\ runs[n].pc = "download_func"
    /\ \A m \in Runs \ {n} : runs[m].pc \in {"idle", "done"}
    /\ v \in DownloadFuncResults(runs[n])
    /\ Resume(n, v, DownloadFuncResult(runs[n], v))

DownloadFuncReturns(n, v) ==
    /\ runs[n].pc = "download_func"
    /\ v \in DownloadFuncResults(runs[n])
    /\ Resume(n, v, DownloadFuncResult(runs[n], v))

ExceptionMethodReturns(n, v) ==
    /\ runs[n].pc = "process_exception"
    /\ v \in ExceptionMethodResults(runs[n])
    /\ Resume(n, v, ProcessExceptionResult(runs[n], v))

ResponseMethodReturns(n, v) ==
    /\ runs[n].pc = "process_response"
    /\ v \in ResponseMethodResults(runs[n])
    /\ Resume(n, v, ProcessResponseResult(runs[n], v))

\* Every value a call may give.
Values ==
    {NoneV, Req(NewRequest), Other, Raised("IgnoreRequest"),
     Raised("StageError"), Raised("DownloadError")}
    \cup {Resp(r) : r \in Resps}

(***************************************************************************)
(* The history of the observed runs.                                       *)
(***************************************************************************)
CallEntry(rr) == [h |-> Handler(rr), arg |-> rr.arg, res |-> Pending]

\* download() is called in the place n.
ObserveCall(n) ==
    hist' = [hist EXCEPT ![n] =
                  [calls |-> @.calls + 1, log |-> <<CallEntry(runs'[n])>>,
                   out |-> NoneV, delta |-> 0, tracks |-> <<>>,
                   added |-> <<>>]]

\* The call that the run n awaited gives v, and the run goes on by the
\* step s.
Observe(n, v, s) ==
    LET old == hist[n]
        got == [old.log EXCEPT ![Len(old.log)].res = v]
    IN hist' = [hist EXCEPT ![n] =
                  [calls |-> old.calls,
                   log |-> IF runs'[n].pc = "done" THEN got
                           ELSE Append(got, CallEntry(runs'[n])),
                   out |-> s.out,
                   delta |-> old.delta + response_active_size'
                                       - response_active_size,
                   tracks |-> IF last'.op = "track"
                              THEN Append(old.tracks, last'.r)
                              ELSE old.tracks,
                   added |-> IF last'.op = "track" /\ ~last'.was
                             THEN Append(old.added, last'.r)
                             ELSE old.added]]

(***************************************************************************)
(* Spec: a manager of up to MaxMw middlewares is constructed and its first *)
(* download() call is observed.                                            *)
(***************************************************************************)
Next ==
    \/ \E caps \in Caps : AddMiddleware(caps) /\ UNCHANGED hist
    \/ ManagerInit /\ UNCHANGED hist
    \/ \E n \in Runs : hist[n].calls = 0 /\ Download(n) /\ ObserveCall(n)
    \/ \E n \in Runs, v \in Values : RequestMethodReturns(n, v)
          /\ Observe(n, v, ProcessRequestResult(runs[n], v))
    \/ \E n \in Runs, v \in Values : DownloadFuncReturns(n, v)
          /\ Observe(n, v, DownloadFuncResult(runs[n], v))
    \/ \E n \in Runs, v \in Values : ExceptionMethodReturns(n, v)
          /\ Observe(n, v, ProcessExceptionResult(runs[n], v))
    \/ \E n \in Runs, v \in Values : ResponseMethodReturns(n, v)
          /\ Observe(n, v, ProcessResponseResult(runs[n], v))
    \/ \E r \in Resps : Drop(r) /\ UNCHANGED hist
    \/ \E r \in Resps : Finalize(r) /\ UNCHANGED hist

Spec == Init /\ [][Next]_vars

\* The method, or download_func, that the run n awaits completes, and the
\* run goes on.
Returns(n) ==
    \E v \in Values :
        \/ RequestMethodReturns(n, v)
              /\ Observe(n, v, ProcessRequestResult(runs[n], v))
        \/ DownloadFuncReturns(n, v)
              /\ Observe(n, v, DownloadFuncResult(runs[n], v))
        \/ ExceptionMethodReturns(n, v)
              /\ Observe(n, v, ProcessExceptionResult(runs[n], v))
        \/ ResponseMethodReturns(n, v)
              /\ Observe(n, v, ProcessResponseResult(runs[n], v))

\* Every method that the observed run calls, and download_func, completes
\* in the end.
SpecFair == Spec /\ WF_vars(Returns(1))

(***************************************************************************)
(* SpecRuns: download() calls in progress together, on a manager of one    *)
(* middleware that has the three methods.                                  *)
(***************************************************************************)
InitRuns ==
    /\ middlewares = <<{"process_request", "process_response", "process_exception"}>>
    /\ methods = AddMiddlewareMethods(NoMethods, 1, middlewares[1])
    /\ built = TRUE
    /\ response_active_size = 0
    /\ tracked = {}
    /\ finalizers = [r \in Resps |-> 0]
    /\ discounting = <<>>
    /\ live = {}
    /\ ext = {}
    /\ runs = [n \in 1..NumRuns |-> IdleRun]
    /\ last = NoOp
    /\ contrib = [r \in Resps |-> 0]
    /\ hist = [n \in 1..NumRuns |-> NoHist]
    /\ NoFeedExporter /\ NoDupeFilter /\ NoOffsite

NextRuns ==
    \/ \E n \in Runs : Download(n) /\ UNCHANGED hist
    \/ \E n \in Runs, v \in Values : RequestMethodReturns(n, v) /\ UNCHANGED hist
    \/ \E n \in Runs, v \in Values : DownloadFuncReturns(n, v) /\ UNCHANGED hist
    \/ \E n \in Runs, v \in Values : ExceptionMethodReturns(n, v) /\ UNCHANGED hist
    \/ \E n \in Runs, v \in Values : ResponseMethodReturns(n, v) /\ UNCHANGED hist
    \/ \E r \in Resps : Drop(r) /\ UNCHANGED hist
    \/ \E r \in Resps : Finalize(r) /\ UNCHANGED hist

SpecRuns == InitRuns /\ [][NextRuns]_vars

\* The method, or download_func, that the run n awaits completes, and the
\* run goes on; the run is not observed.
ReturnsRun(n) ==
    /\ \E v \in Values :
          \/ RequestMethodReturns(n, v)
          \/ DownloadFuncReturns(n, v)
          \/ ExceptionMethodReturns(n, v)
          \/ ResponseMethodReturns(n, v)
    /\ UNCHANGED hist

\* The calls of the last run complete in the end; those of the other runs
\* may never do.
SpecRunsOne == SpecRuns /\ WF_vars(ReturnsRun(NumRuns))

(***************************************************************************)
(* SpecThreads: as SpecRuns, each run made once, with the responses        *)
(* collected in another thread than the reactor's, as the threads of the   *)
(* reactor's pool are (threads.deferToThread): the release callback of a   *)
(* response runs where the response is collected, and its read and its     *)
(* store of the counter are two steps, between which the reactor thread    *)
(* may run.                                                                *)
(***************************************************************************)
NextThreads ==
    \/ \E n \in Runs : runs[n].pc = "idle" /\ Download(n) /\ UNCHANGED hist
    \/ \E n \in Runs : ReturnsRun(n)
    \/ \E r \in Resps : Drop(r) /\ UNCHANGED hist
    \/ \E r \in Resps : FinalizeRead(r) /\ UNCHANGED hist
    \/ FinalizeWrite /\ UNCHANGED hist

SpecThreads == InitRuns /\ [][NextThreads]_vars

(***************************************************************************)
(* SpecAgain: up to MaxCalls download() calls, one after the other, are    *)
(* observed on a manager of one middleware, whatever methods it has: a     *)
(* call finds the responses that the calls before it left.                 *)
(***************************************************************************)
InitAgain ==
    /\ middlewares \in {<<caps>> : caps \in Caps}
    /\ methods = AddMiddlewareMethods(NoMethods, 1, middlewares[1])
    /\ built = TRUE
    /\ response_active_size = 0
    /\ tracked = {}
    /\ finalizers = [r \in Resps |-> 0]
    /\ discounting = <<>>
    /\ live = {}
    /\ ext = {}
    /\ runs = [n \in {1} |-> IdleRun]
    /\ last = NoOp
    /\ contrib = [r \in Resps |-> 0]
    /\ hist = [n \in {1} |-> NoHist]
    /\ NoFeedExporter /\ NoDupeFilter /\ NoOffsite

NextAgain ==
    \/ \E n \in Runs : hist[n].calls < MaxCalls /\ Download(n) /\ ObserveCall(n)
    \/ \E n \in Runs, v \in Values : RequestMethodReturns(n, v)
          /\ Observe(n, v, ProcessRequestResult(runs[n], v))
    \/ \E n \in Runs, v \in Values : DownloadFuncReturns(n, v)
          /\ Observe(n, v, DownloadFuncResult(runs[n], v))
    \/ \E n \in Runs, v \in Values : ExceptionMethodReturns(n, v)
          /\ Observe(n, v, ProcessExceptionResult(runs[n], v))
    \/ \E n \in Runs, v \in Values : ResponseMethodReturns(n, v)
          /\ Observe(n, v, ProcessResponseResult(runs[n], v))
    \/ \E r \in Resps : Drop(r) /\ UNCHANGED hist
    \/ \E r \in Resps : Finalize(r) /\ UNCHANGED hist

SpecAgain == InitAgain /\ [][NextAgain]_vars

(***************************************************************************)
(* scrapy.extensions.feedexport: _FeedSlot and FeedExporter. The exporter  *)
(* and the storage of a slot are the sequences of the calls made on them;  *)
(* these calls are taken to return normally.                               *)
(***************************************************************************)
\* _FeedSlot.__init__
FeedSlot(store_empty) ==
    [store_empty |-> store_empty, itemcount |-> 0, exporting |-> FALSE,
     exporter |-> <<>>, storage |-> <<"open">>]

\* Mutant: the exporter is started whether it is exporting or not.
StartExportingNoCheck(slot) ==
    [slot EXCEPT !.exporter = Append(@, "start_exporting"), !.exporting = TRUE]

\* _FeedSlot.start_exporting
StartExporting(slot) ==
    IF ~slot.exporting
    THEN [slot EXCEPT !.exporter = Append(@, "start_exporting"),
                      !.exporting = TRUE]
    ELSE slot

\* _FeedSlot.finish_exporting
FinishExporting(slot) ==
    IF slot.exporting
    THEN [slot EXCEPT !.exporter = Append(@, "finish_exporting"),
                      !.exporting = FALSE]
    ELSE slot

\* defer.maybeDeferred(slot.storage.store, slot.file)
Store(slot) == [slot EXCEPT !.storage = Append(@, "store")]

\* The loop of open_spider, for one feed.
OpenSlot(store_empty) ==
    IF store_empty THEN StartExporting(FeedSlot(store_empty))
    ELSE FeedSlot(store_empty)

\* The loop of item_scraped, for one slot.
ExportItem(slot) ==
    LET started == StartExporting(slot)
    IN [started EXCEPT !.exporter = Append(@, "export_item"),
                       !.itemcount = @ + 1]

\* The loop of close_spider from the slot i on: a slot without items whose
\* store_empty is off is stored and the function returns there.
RECURSIVE CloseSlots(_, _)
CloseSlots(ss, i) ==
    IF i > Len(ss)
    THEN ss
    ELSE IF ss[i].itemcount = 0 /\ ~ss[i].store_empty
    THEN [ss EXCEPT ![i] = Store(@)]
    ELSE CloseSlots([ss EXCEPT ![i] = Store(FinishExporting(@))], i + 1)

\* FeedExporter.open_spider, on the signal spider_opened.
OpenSpider ==
    /\ spider = "none"
    /\ spider' = "opened"
    /\ slots' = slots \o [i \in 1..Len(feeds) |-> OpenSlot(feeds[i])]
    /\ UNCHANGED <<feeds, manager, dupefilter, offsitemw>>

\* FeedExporter.item_scraped, on the signal item_scraped.
ItemScraped ==
    /\ spider = "opened"
    /\ \A i \in 1..Len(slots) : slots[i].itemcount < MaxItems
    /\ slots' = [i \in 1..Len(slots) |-> ExportItem(slots[i])]
    /\ UNCHANGED <<feeds, spider, manager, dupefilter, offsitemw>>

\* FeedExporter.close_spider, on the signal spider_closed.
CloseSpider ==
    /\ spider = "opened"
    /\ spider' = "closed"
    /\ slots' = CloseSlots(slots, 1)
    /\ UNCHANGED <<feeds, manager, dupefilter, offsitemw>>

\* The manager is not constructed.
NoManager ==
    /\ methods = NoMethods
    /\ middlewares = <<>>
    /\ built = FALSE
    /\ response_active_size = 0
    /\ tracked = {}
    /\ finalizers = [r \in Resps |-> 0]
    /\ discounting = <<>>
    /\ live = {}
    /\ ext = {}
    /\ runs = [n \in {1} |-> IdleRun]
    /\ last = NoOp
    /\ contrib = [r \in Resps |-> 0]
    /\ hist = [n \in {1} |-> NoHist]

\* SpecFeeds: a FeedExporter of one to MaxSlots feeds (without feeds
\* __init__ raises NotConfigured), through the life of a spider.
InitFeeds ==
    /\ NoManager /\ NoDupeFilter /\ NoOffsite
    /\ feeds \in UNION {[1..n -> BOOLEAN] : n \in 1..MaxSlots}
    /\ slots = NoSlots
    /\ spider = "none"

NextFeeds ==
    \/ OpenSpider
    \/ ItemScraped
    \/ CloseSpider

SpecFeeds == InitFeeds /\ [][NextFeeds]_vars

(***************************************************************************)
(* scrapy.dupefilters.RFPDupeFilter. A line of requests.seen is a          *)
(* fingerprint (a string of hexadecimal digits) and what follows it.       *)
(***************************************************************************)
Reqs == 1..NumReqs
Fps == 1..NumFps

\* request_fingerprint(request): requests that differ may have the same
\* fingerprint.
Fingerprint(q) == (q % NumFps) + 1

\* fp + '\n'
Line(fp) == <<fp, "\n">>
\* x.rstrip()
Rstrip(line) == line[1]

\* The requests.seen files that a job leaves: a line for each fingerprint
\* it has seen, none twice.
SeenFiles ==
    {l \in UNION {[1..n -> {Line(fp) : fp \in Fps}] : n \in 0..NumFps} :
        \A i, j \in 1..Len(l) : i # j => l[i] # l[j]}

\* RFPDupeFilter.__init__(path): without a path there is no file; with one,
\* the fingerprints of the lines of requests.seen are loaded.
DupeFilterInit ==
    /\ file \in {NoFile}
                \cup {[path |-> TRUE, closed |-> FALSE, lines |-> l] :
                         l \in SeenFiles}
    /\ fingerprints = {Rstrip(file.lines[i]) : i \in 1..Len(file.lines)}
    /\ seen = [loaded |-> fingerprints, calls |-> <<>>]

\* Mutant: the fingerprint is written and not added to the set.
RequestSeenNoAdd(q) ==
    LET fp == Fingerprint(q) IN
    IF fp \in fingerprints
    THEN [res |-> "True", fingerprints |-> fingerprints, file |-> file]
    ELSE [res |-> "None", fingerprints |-> fingerprints,
          file |-> IF file.path
                   THEN [file EXCEPT !.lines = Append(@, Line(fp))]
                   ELSE file]

\* RFPDupeFilter.request_seen(request): what it returns and what it leaves.
RequestSeen(q) ==
    LET fp == Fingerprint(q) IN
    IF fp \in fingerprints
    THEN [res |-> "True", fingerprints |-> fingerprints, file |-> file]
    ELSE [res |-> "None", fingerprints |-> fingerprints \cup {fp},
          file |-> IF file.path
                   THEN [file EXCEPT !.lines = Append(@, Line(fp))]
                   ELSE file]

\* The scheduler asks whether the request q was seen.
AskSeen(q) ==
    /\ ~file.closed
    /\ Len(seen.calls) < MaxSeen
    /\ fingerprints' = RequestSeen(q).fingerprints
    /\ file' = RequestSeen(q).file
    /\ seen' = [seen EXCEPT !.calls =
                    Append(@, [fp |-> Fingerprint(q), res |-> RequestSeen(q).res])]
    /\ UNCHANGED <<manager, feedexport, offsitemw>>

\* RFPDupeFilter.close(reason), when the scheduler closes.
CloseDupeFilter ==
    /\ ~file.closed
    /\ file' = [file EXCEPT !.closed = TRUE]
    /\ UNCHANGED <<fingerprints, seen, manager, feedexport, offsitemw>>

\* SpecDupes: a duplicates filter, with or without a job directory, is asked
\* about up to MaxSeen requests and closed.
InitDupes ==
    /\ NoManager /\ NoFeedExporter /\ NoOffsite
    /\ DupeFilterInit

NextDupes ==
    \/ \E q \in Reqs : AskSeen(q)
    \/ CloseDupeFilter

SpecDupes == InitDupes /\ [][NextDupes]_vars

(***************************************************************************)
(* scrapy.downloadermiddlewares.offsite.OffsiteMiddleware. A host name is  *)
(* the sequence of its labels, the empty string the empty sequence.        *)
(***************************************************************************)
\* urlparse_cached(request).hostname is None for a URL without a host.
NoHost == <<"">>
Hosts == {<<"a", "com">>, <<"www", "a", "com">>, <<"b", "org">>, NoHost}
OffsiteRequests == [dont_filter : BOOLEAN, hostname : Hosts]

\* The entries of spider.allowed_domains: domains, and an entry that
\* get_host_regex ignores (a URL, a domain with a port, None).
Domain(name) == [kind |-> "domain", name |-> name]
UrlEntry == [kind |-> "url", name |-> <<"http://a", "com">>]
AllowedDomains == SUBSET {Domain(<<"a", "com">>), Domain(<<"b", "org">>), UrlEntry}

\* get_host_regex(spider): re.compile("") without allowed_domains, else
\* ^(.*\.)?(d1|d2|...)$ over the entries that are domains.
GetHostRegex(allowed) ==
    IF allowed = {}
    THEN [set |-> TRUE, all |-> TRUE, domains |-> {}]
    ELSE [set |-> TRUE, all |-> FALSE,
          domains |-> {e.name : e \in {x \in allowed : x.kind = "domain"}}]

\* The labels d end the labels host.
EndsWith(host, d) ==
    /\ Len(d) <= Len(host)
    /\ \A k \in 1..Len(d) : d[k] = host[Len(host) - Len(d) + k]

\* regex.search(host): the empty pattern matches every host; the pattern
\* without domains, ^(.*\.)?()$, matches the empty string; the pattern of
\* the domains matches a domain and what ends with a dot and the domain.
Search(regex, host) ==
    IF regex.all THEN TRUE
    ELSE IF regex.domains = {} THEN host = <<>>
    ELSE \E d \in regex.domains : EndsWith(host, d)

\* OffsiteMiddleware.should_follow: hostname or ""
ShouldFollow(req) ==
    Search(host_regex, IF req.hostname = NoHost THEN <<>> ELSE req.hostname)

\* Mutant: the domain is counted whether it was seen or not.
OffsiteProcessRequestNoSeenCheck(req) ==
    IF req.dont_filter \/ ShouldFollow(req)
    THEN [res |-> "None", domains_seen |-> domains_seen, stats |-> stats]
    ELSE LET domain == req.hostname
             new == domain # NoHost /\ domain # <<>>
         IN [res |-> "IgnoreRequest",
             domains_seen |-> IF new THEN domains_seen \cup {domain}
                              ELSE domains_seen,
             stats |-> [filtered |-> stats.filtered + 1,
                        domains |-> stats.domains + IF new THEN 1 ELSE 0]]

\* OffsiteMiddleware.process_request(request, spider): what it returns or
\* raises, and what it leaves.
OffsiteProcessRequest(req) ==
    IF req.dont_filter \/ ShouldFollow(req)
    THEN [res |-> "None", domains_seen |-> domains_seen, stats |-> stats]
    ELSE LET domain == req.hostname
             new == domain # NoHost /\ domain # <<>> /\ domain \notin domains_seen
         IN [res |-> "IgnoreRequest",
             domains_seen |-> IF new THEN domains_seen \cup {domain}
                              ELSE domains_seen,
             stats |-> [filtered |-> stats.filtered + 1,
                        domains |-> stats.domains + IF new THEN 1 ELSE 0]]

\* OffsiteMiddleware.spider_opened, on the signal spider_opened.
SpiderOpened(allowed) ==
    /\ ~host_regex.set
    /\ host_regex' = GetHostRegex(allowed)
    /\ domains_seen' = {}
    /\ UNCHANGED <<stats, offsite, manager, feedexport, dupefilter>>

\* The manager calls process_request of the offsite middleware.
FilterRequest(req) ==
    /\ host_regex.set
    /\ Len(offsite) < MaxOffsite
    /\ domains_seen' = OffsiteProcessRequest(req).domains_seen
    /\ stats' = OffsiteProcessRequest(req).stats
    /\ offsite' = Append(offsite, [req |-> req,
                                   res |-> OffsiteProcessRequest(req).res,
                                   before |-> stats, after |-> stats'])
    /\ UNCHANGED <<host_regex, manager, feedexport, dupefilter>>

\* SpecOffsite: an offsite middleware, its spider opened with any of the
\* allowed_domains, is passed up to MaxOffsite requests.
InitOffsite ==
    /\ NoManager /\ NoFeedExporter /\ NoDupeFilter
    /\ NoOffsite

NextOffsite ==
    \/ \E allowed \in AllowedDomains : SpiderOpened(allowed)
    \/ \E req \in OffsiteRequests : FilterRequest(req)

SpecOffsite == InitOffsite /\ [][NextOffsite]_vars

TypeOK ==
    /\ Len(discounting) <= 1
    /\ Len(middlewares) <= MaxMw
    /\ built \in BOOLEAN
    /\ tracked \subseteq live
    /\ ext \subseteq live
    /\ \A n \in Runs : runs[n].pc \in {"idle", "process_request", "download_func",
                                       "process_exception", "process_response", "done"}

(***************************************************************************)
(* Properties of the observed runs (Spec).                                 *)
(***************************************************************************)
AllCaps == {"process_request", "process_response", "process_exception"}

Log(n) == hist[n].log
Done(n) == runs[n].pc = "done"
Reverse(s) == [i \in 1..Len(s) |-> s[Len(s) + 1 - i]]

\* The middlewares that have the method fn, in registration order.
Having(fn) ==
    SelectSeq([i \in 1..Len(middlewares) |-> i], LAMBDA i : fn \in middlewares[i])

\* The middlewares whose method fn the run n has called, in call order.
Invoked(n, fn) ==
    LET s == SelectSeq(Log(n), LAMBDA e : e.h[1] = fn)
    IN [i \in 1..Len(s) |-> s[i].h[2]]

IsPrefix(s, t) == Len(s) <= Len(t) /\ \A i \in 1..Len(s) : s[i] = t[i]

\* The entry i of the log of n is a call of a method fn that gave a value of
\* kind k.
Gave(n, i, fn, k) ==
    /\ i \in 1..Len(Log(n))
    /\ Log(n)[i].h[1] = fn
    /\ Log(n)[i].res.k = k

\* Where the handler of the entry e stands in its list of methods.
Place(e) == CHOOSE k \in 1..Len(methods[e.h[1]]) : methods[e.h[1]][k] = e.h[2]

\* C1: the request methods are called in registration order, the response
\* and the exception methods in the reverse of registration order; each list
\* holds exactly the middlewares that have the method, each once.
C1_Order ==
    /\ methods.process_request = Having("process_request")
    /\ methods.process_response = Reverse(Having("process_response"))
    /\ methods.process_exception = Reverse(Having("process_exception"))
    /\ \A n \in Runs :
         /\ IsPrefix(Invoked(n, "process_request"), Having("process_request"))
         /\ IsPrefix(Invoked(n, "process_response"),
                     Reverse(Having("process_response")))
         /\ IsPrefix(Invoked(n, "process_exception"),
                     Reverse(Having("process_exception")))

\* A run on two middlewares, the second without process_request, has called
\* every method there is: both exception and both response methods in reverse.
C1_Witness ==
    /\ middlewares = <<AllCaps, {"process_response", "process_exception"}>>
    /\ Done(1)
    /\ Invoked(1, "process_request") = <<1>>
    /\ Invoked(1, "process_exception") = <<2, 1>>
    /\ Invoked(1, "process_response") = <<2, 1>>

\* C2: once a request method has returned a Response, the run calls no
\* further request method and does not call download_func.
C2_ResponseShortCircuit ==
    \A n \in Runs : \A i \in 1..Len(Log(n)) :
        Gave(n, i, "process_request", "Response") =>
            \A j \in (i + 1)..Len(Log(n)) :
                Log(n)[j].h[1] \notin {"process_request", "download_func"}

\* The first of two request methods returned a Response and the run ended.
C2_Witness ==
    /\ Len(methods.process_request) = 2
    /\ Gave(1, 1, "process_request", "Response")
    /\ Done(1)

\* C3: when a request method returns a Request the run ends there with that
\* Request: only request methods were called, nothing was tracked and the
\* size is as the run found it.
C3_RequestShortCircuit ==
    \A n \in Runs : \A i \in 1..Len(Log(n)) :
        Gave(n, i, "process_request", "Request") =>
            /\ i = Len(Log(n))
            /\ Done(n)
            /\ hist[n].out = Log(n)[i].res
            /\ \A j \in 1..Len(Log(n)) : Log(n)[j].h[1] = "process_request"
            /\ hist[n].tracks = <<>>
            /\ hist[n].delta = 0

\* The first request method of a manager that has all the methods returned
\* a Request.
C3_Witness ==
    /\ Len(methods.process_request) = 2
    /\ methods.process_response # <<>>
    /\ methods.process_exception # <<>>
    /\ Gave(1, 1, "process_request", "Request")
    /\ hist[1].out = Req(NewRequest)

\* C4: when a response method returns a Request the run ends there with
\* that Request: no further response method is called.
C4_ResponseRequest ==
    \A n \in Runs : \A i \in 1..Len(Log(n)) :
        Gave(n, i, "process_response", "Request") =>
            /\ i = Len(Log(n))
            /\ Done(n)
            /\ hist[n].out = Log(n)[i].res

\* The first of two response methods returned a Request.
C4_Witness ==
    /\ Len(methods.process_response) = 2
    /\ Len(Invoked(1, "process_response")) = 1
    /\ Gave(1, Len(Log(1)), "process_response", "Request")
    /\ hist[1].out = Req(NewRequest)

\* C5: a response method that returns None ends the run with _InvalidOutput
\* naming it; after a request or exception method that returns None the run
\* calls the next method of the list with the same argument (after the last
\* request method, download_func), and no _InvalidOutput names the method.
C5_None ==
    \A n \in Runs : \A i \in 1..Len(Log(n)) :
        LET e == Log(n)[i] IN
        /\ Gave(n, i, "process_response", "None") =>
              /\ i = Len(Log(n))
              /\ Done(n)
              /\ hist[n].out = Failure("_InvalidOutput", e.h)
        /\ Gave(n, i, "process_request", "None") =>
              /\ i < Len(Log(n))
              /\ Log(n)[i + 1].arg = e.arg
              /\ Log(n)[i + 1].h =
                    IF Place(e) < Len(methods.process_request)
                    THEN <<"process_request", methods.process_request[Place(e) + 1]>>
                    ELSE <<"download_func", 0>>
              /\ hist[n].out # Failure("_InvalidOutput", e.h)
        /\ Gave(n, i, "process_exception", "None") =>
              /\ Place(e) < Len(methods.process_exception) =>
                    /\ i < Len(Log(n))
                    /\ Log(n)[i + 1].arg = e.arg
                    /\ Log(n)[i + 1].h =
                          <<"process_exception",
                            methods.process_exception[Place(e) + 1]>>
              /\ hist[n].out # Failure("_InvalidOutput", e.h)

\* A run in which a request method, then an exception method, then a
\* response method returned None.
C5_Witness ==
    /\ Len(Log(1)) = 5
    /\ Gave(1, 1, "process_request", "None")
    /\ Gave(1, 3, "process_exception", "None")
    /\ Gave(1, 4, "process_exception", "Response")
    /\ Gave(1, 5, "process_response", "None")
    /\ hist[1].out = Failure("_InvalidOutput", <<"process_response", 2>>)

\* C6 (as claimed): a run in which a method returned a value that its phase
\* does not accept (anything but None, a Response or a Request; for a
\* response method None too) ends with _InvalidOutput naming that method.
\* The code passes the _InvalidOutput of a request method to the exception
\* methods, which may turn it into a Response or a Request.
C6_InvalidOutputFatal ==
    \A n \in Runs : \A i \in 1..Len(Log(n)) :
        LET e == Log(n)[i] IN
        /\ e.h[1] \in AllCaps
        /\ (e.res.k = "Other" \/ (e.h[1] = "process_response" /\ e.res.k = "None"))
        /\ Done(n)
        => hist[n].out = Failure("_InvalidOutput", e.h)

\* C10 (as claimed): download_func is called with the original request after
\* request methods that all returned None; the Response it gives is passed
\* to _count_response_size at once, and when no method is registered it is
\* the output of the run and its body length was added to the size.
\* The code returns the Response of download_func without counting it.
C10_DownloadTracked ==
    \A n \in Runs : \A i \in 1..Len(Log(n)) :
        LET e == Log(n)[i] IN
        e.h[1] = "download_func" =>
            /\ e.arg = Req(OrigRequest)
            /\ \A j \in 1..(i - 1) : Gave(n, j, "process_request", "None")
            /\ IsResponse(e.res) =>
                  /\ hist[n].tracks # <<>>
                  /\ hist[n].tracks[1] = e.res.id
                  /\ methods = NoMethods =>
                        /\ Done(n)
                        /\ hist[n].out = e.res
                        /\ hist[n].delta = BodyLen(e.res.id)

(***************************************************************************)
(* Properties of the size of the live responses (SpecRuns).                *)
(***************************************************************************)
RECURSIVE SumLen(_)
SumLen(S) ==
    IF S = {} THEN 0
    ELSE LET r == CHOOSE x \in S : TRUE IN BodyLen(r) + SumLen(S \ {r})

\* An unreachable response is collected in the end.
SpecRunsFair ==
    SpecRuns /\ \A r \in Resps : WF_vars(Finalize(r) /\ UNCHANGED hist)

\* C7: a live response has added its body length to the size once if it is
\* in the WeakSet and never otherwise; _count_response_size of a response
\* that is in the WeakSet changes neither the size nor the WeakSet, and of
\* any other adds it and its body length.
C7_TrackOnce ==
    /\ [](\A r \in Resps : /\ contrib[r] <= 1
                            /\ r \in tracked <=> contrib[r] = 1)
    /\ [][last'.op = "track" =>
            IF last'.was
            THEN UNCHANGED <<response_active_size, tracked>>
            ELSE /\ response_active_size' = response_active_size + BodyLen(last'.r)
                 /\ tracked' = tracked \cup {last'.r}]_vars

\* A run passes to _count_response_size a response that another run counted,
\* and both hold it.
C7_Witness ==
    /\ last.op = "track"
    /\ last.was
    /\ \A n \in Runs : Holds(n, last.r)

DownloadFailed(n, i) ==
    \E j \in 1..(i - 1) :
        Log(n)[j].h[1] = "download_func" /\ IsFailure(Log(n)[j].res)

\* C12: when download_func fails and an exception method returns a
\* Response, the Response is passed to _count_response_size, no further
\* exception method is called, and the Response is the argument of the
\* first response method, or the output of the run when there is none; when
\* every response method returns a Response each is called in turn, in the
\* reverse of registration order, with what the one before returned, and
\* the last result is the output of the run.
C12_ExceptionResponse ==
    \A n \in Runs : \A i \in 1..Len(Log(n)) :
        Gave(n, i, "process_exception", "Response") /\ DownloadFailed(n, i) =>
            LET R == Log(n)[i].res
                L == Len(Log(n))
            IN
            /\ hist[n].tracks # <<>>
            /\ hist[n].tracks[1] = R.id
            /\ \A j \in (i + 1)..L : Log(n)[j].h[1] = "process_response"
            /\ IF methods.process_response = <<>>
               THEN i = L /\ Done(n) /\ hist[n].out = R
               ELSE /\ i < L
                    /\ Log(n)[i + 1].h =
                          <<"process_response", methods.process_response[1]>>
                    /\ Log(n)[i + 1].arg = R
                    /\ \A j \in (i + 1)..(L - 1) : Log(n)[j + 1].arg = Log(n)[j].res
                    /\ (Done(n) /\ \A j \in (i + 1)..L : IsResponse(Log(n)[j].res))
                       => /\ Invoked(n, "process_response")
                                = Reverse(Having("process_response"))
                          /\ hist[n].out = Log(n)[L].res

\* download_func failed, the first of two exception methods returned a
\* Response, and both response methods were called with it.
C12_Witness ==
    /\ Len(methods.process_exception) = 2
    /\ Len(methods.process_response) = 2
    /\ Done(1)
    /\ Len(Log(1)) = 4
    /\ Log(1)[1].h[1] = "download_func"
    /\ Gave(1, 2, "process_exception", "Response")
    /\ Invoked(1, "process_response") = <<2, 1>>
    /\ hist[1].out = Log(1)[2].res
    /\ hist[1].tracks[1] = hist[1].out.id

\* C13: when an exception method returns a Request the run ends there with
\* that Request: no further exception method and no response method is
\* called.
C13_ExceptionRequest ==
    \A n \in Runs : \A i \in 1..Len(Log(n)) :
        Gave(n, i, "process_exception", "Request") =>
            /\ i = Len(Log(n))
            /\ Done(n)
            /\ hist[n].out = Log(n)[i].res
            /\ Invoked(n, "process_response") = <<>>

\* The first of two exception methods returned a Request, on a manager
\* that has response methods.
C13_Witness ==
    /\ Len(methods.process_exception) = 2
    /\ methods.process_response # <<>>
    /\ Len(Invoked(1, "process_exception")) = 1
    /\ Gave(1, Len(Log(1)), "process_exception", "Request")
    /\ hist[1].out = Req(NewRequest)

\* The failure that the call of the entry e hands to process_exception:
\* what it raised, or the _InvalidOutput for what it returned.
Fault(e) ==
    IF IsFailure(e.res) THEN e.res ELSE Failure("_InvalidOutput", e.h)

\* The entry i of the log of n is a call of process_request or
\* download_func that failed.
Faulted(n, i) ==
    /\ i \in 1..Len(Log(n))
    /\ Log(n)[i].h[1] \in {"process_request", "download_func"}
    /\ (IsFailure(Log(n)[i].res) \/ Log(n)[i].res.k = "Other")

\* C14: when process_request fails and every exception method returns None
\* (or there is none), the run ends with the failure that entered
\* process_exception; no response method is called and the run has not
\* changed the size.
C14_FaultPropagates ==
    \A n \in Runs : \A i \in 1..Len(Log(n)) :
        /\ Faulted(n, i)
        /\ Done(n)
        /\ \A j \in (i + 1)..Len(Log(n)) : Gave(n, j, "process_exception", "None")
        => /\ hist[n].out = Fault(Log(n)[i])
           /\ Len(Log(n)) - i = Len(methods.process_exception)
           /\ \A j \in (i + 1)..Len(Log(n)) : Log(n)[j].arg = Fault(Log(n)[i])
           /\ Invoked(n, "process_response") = <<>>
           /\ hist[n].delta = 0
           /\ hist[n].tracks = <<>>

\* download_func failed, both exception methods returned None and the run
\* ended with the failure, on a manager that has response methods.
C14_Witness ==
    /\ Len(methods.process_exception) = 2
    /\ methods.process_response # <<>>
    /\ Done(1)
    /\ Faulted(1, Len(Log(1)) - 2)
    /\ Log(1)[Len(Log(1)) - 2].h[1] = "download_func"
    /\ Gave(1, Len(Log(1)) - 1, "process_exception", "None")
    /\ Gave(1, Len(Log(1)), "process_exception", "None")
    /\ hist[1].out = Raised("DownloadError")

\* The entry i of the log of n is a request method that raised
\* IgnoreRequest.
Ignored(n, i) ==
    /\ i \in 1..Len(Log(n))
    /\ Log(n)[i].h[1] = "process_request"
    /\ Log(n)[i].res = Raised("IgnoreRequest")

Suspended(n) ==
    runs[n].pc \in {"process_request", "download_func", "process_exception",
                    "process_response"}

\* C16: a run whose calls all complete ends; it ends with a Response, a
\* Request or a failure that one of its calls raised or that names the
\* method that returned an invalid value, and never with None; it has no
\* outcome before it ends and its outcome does not change afterwards.
C16_OneOutcome ==
    /\ Suspended(1) ~> Done(1)
    /\ [](\A n \in Runs :
            IF Done(n)
            THEN /\ hist[n].out.k \in {"Response", "Request", "Failure"}
                 /\ IsFailure(hist[n].out) =>
                       \E i \in 1..Len(Log(n)) :
                           /\ hist[n].out = Fault(Log(n)[i])
                           /\ \/ IsFailure(Log(n)[i].res)
                              \/ Log(n)[i].res.k = "Other"
                              \/ Gave(n, i, "process_response", "None")
            ELSE hist[n].out = NoneV)
    /\ [][\A n \in Runs :
            Done(n) => runs'[n].pc = "done" /\ hist'[n].out = hist[n].out]_vars

\* A run went through the request methods, download_func, the exception
\* methods and the response methods, and ended with a Response.
C16_Witness ==
    /\ Done(1)
    /\ Len(Log(1)) = 4
    /\ Gave(1, 1, "process_request", "None")
    /\ Log(1)[2].h[1] = "download_func"
    /\ Gave(1, 3, "process_exception", "Response")
    /\ Gave(1, 4, "process_response", "Response")
    /\ hist[1].out = Log(1)[4].res

\* The place of a function in the order of the phases.
Rank(fn) ==
    CASE fn = "process_request" -> 1
      [] fn = "download_func" -> 2
      [] fn = "process_exception" -> 3
      [] fn = "process_response" -> 4

\* C17: a run has at most one call in progress, the last one it made, and
\* every call before it has given its result; a result that the phase does
\* not accept is followed by no call of that phase; the calls follow the
\* order request methods, download_func, exception methods, response
\* methods; the exception methods begin only after a failed call and the
\* response methods only with a Response.
C17_OneAtATime ==
    \A n \in Runs :
        LET L == Len(Log(n)) IN
        /\ \A i \in 1..L : Log(n)[i].res = Pending <=> (i = L /\ Suspended(n))
        /\ Suspended(n) =>
              /\ L >= 1
              /\ Log(n)[L].h = Handler(runs[n])
              /\ Log(n)[L].arg = runs[n].arg
        /\ \A i \in 1..(L - 1) :
              LET e == Log(n)[i]
                  f == Log(n)[i + 1]
              IN
              /\ Rank(e.h[1]) <= Rank(f.h[1])
              /\ e.h[1] = f.h[1] => e.h # f.h
              /\ e.res.k = "Other" =>
                    /\ e.h[1] = "process_request"
                    /\ f.h[1] = "process_exception"
                    /\ f.arg = Failure("_InvalidOutput", e.h)
              /\ e.h[1] = "process_response" => IsResponse(e.res)
              /\ (f.h[1] = "process_exception" /\ e.h[1] # "process_exception")
                 => Faulted(n, i)
              /\ f.h[1] = "process_response" => f.arg = e.res /\ IsResponse(e.res)

\* A run that went through the request methods, download_func and the
\* exception methods awaits a response method.
C17_Witness ==
    /\ Suspended(1)
    /\ Len(Log(1)) = 5
    /\ Gave(1, 1, "process_request", "None")
    /\ Gave(1, 2, "process_request", "None")
    /\ Log(1)[3].h[1] = "download_func"
    /\ Gave(1, 4, "process_exception", "Response")
    /\ Log(1)[5].h[1] = "process_response"
    /\ Log(1)[5].res = Pending

\* C20: a run calls download_func once at most; after download_func has
\* failed the run calls neither download_func nor a request method again,
\* and the failure is passed once down the list of the exception methods:
\* they are called one after the other from the first, each once at most,
\* with that failure.
C20_NoRetry ==
    \A n \in Runs :
        LET L == Len(Log(n)) IN
        /\ Cardinality({i \in 1..L : Log(n)[i].h[1] = "download_func"}) <= 1
        /\ \A i \in 1..L : \A j \in (i + 1)..L :
              Log(n)[i].h[1] = "process_exception" => Log(n)[j].h # Log(n)[i].h
        /\ \A i \in 1..L :
              (Log(n)[i].h[1] = "download_func" /\ IsFailure(Log(n)[i].res)) =>
                  \A j \in (i + 1)..L :
                      /\ Log(n)[j].h[1] \in {"process_exception", "process_response"}
                      /\ Log(n)[j].h[1] = "process_exception" =>
                            /\ j - i <= Len(methods.process_exception)
                            /\ Log(n)[j].h[2] = methods.process_exception[j - i]
                            /\ Log(n)[j].arg = Log(n)[i].res

\* After a request method, download_func failed; each of the two exception
\* methods was called once and returned None, and the run ended with the
\* failure.
C20_Witness ==
    /\ Done(1)
    /\ Len(Log(1)) = 4
    /\ Gave(1, 1, "process_request", "None")
    /\ Log(1)[2].h[1] = "download_func"
    /\ Log(1)[2].res = Raised("DownloadError")
    /\ Invoked(1, "process_exception") = <<2, 1>>
    /\ hist[1].out = Raised("DownloadError")

(***************************************************************************)
(* Properties of the response methods (Spec).                              *)
(***************************************************************************)
\* The Responses that the calls 1..i of the run n gave and the code passed
\* to _count_response_size: those of the methods, not that of download_func.
Counted(n, i) ==
    SelectSeq([k \in 1..i |-> Log(n)[k]],
              LAMBDA e : e.h[1] \in AllCaps /\ IsResponse(e.res))

\* C21: a Response that a response method returns is passed to
\* _count_response_size and is the argument of the next response method;
\* the Response that the last response method returns is the output of the
\* run; without response methods the output is the Response that the
\* callback process_response was given.
C21_ResponsePhase ==
    \A n \in Runs : \A i \in 1..Len(Log(n)) :
        LET e == Log(n)[i] IN
        /\ Gave(n, i, "process_response", "Response") =>
              /\ Len(Counted(n, i)) <= Len(hist[n].tracks)
              /\ hist[n].tracks[Len(Counted(n, i))] = e.res.id
              /\ IF Place(e) < Len(methods.process_response)
                 THEN /\ i < Len(Log(n))
                      /\ Log(n)[i + 1].h =
                            <<"process_response",
                              methods.process_response[Place(e) + 1]>>
                      /\ Log(n)[i + 1].arg = e.res
                 ELSE /\ i = Len(Log(n))
                      /\ Done(n)
                      /\ hist[n].out = e.res
        /\ (methods.process_response = <<>> /\ IsResponse(e.res)) =>
              /\ i = Len(Log(n))
              /\ Done(n)
              /\ hist[n].out = e.res

\* Two response methods each returned a Response that is not the one it was
\* given, and the run ended with the second.
C21_Witness ==
    /\ Len(Log(1)) = 3
    /\ Log(1)[1].h[1] = "download_func"
    /\ Gave(1, 2, "process_response", "Response")
    /\ Gave(1, 3, "process_response", "Response")
    /\ Log(1)[2].res # Log(1)[2].arg
    /\ Log(1)[3].res # Log(1)[3].arg
    /\ hist[1].out = Log(1)[3].res
    /\ hist[1].tracks = <<Log(1)[2].res.id, Log(1)[3].res.id>>

\* C22 (as claimed): every Response has been passed to _count_response_size
\* before it is handed on: the Response that a response method is called
\* with, and the Response that a run ends with, is in _tracked_responses (as
\* long as the object lives).
\* The code hands on the Response of download_func without counting it.
C22_AllTracked ==
    \A n \in Runs :
        /\ (runs[n].pc = "process_response" /\ IsResponse(runs[n].arg)) =>
              runs[n].arg.id \in tracked
        /\ (Done(n) /\ IsResponse(hist[n].out) /\ hist[n].out.id \in live) =>
              hist[n].out.id \in tracked

(***************************************************************************)
(* Properties of the exceptions that the methods raise (Spec).             *)
(***************************************************************************)
\* C24: an exception that a response method or an exception method raises
\* ends the run: the deferred of download() fails with it, and no exception
\* method and no response method is called after the method that raised.
C24_FaultIsFinal ==
    \A n \in Runs : \A i \in 1..Len(Log(n)) :
        LET e == Log(n)[i] IN
        (e.h[1] \in {"process_response", "process_exception"} /\ IsFailure(e.res))
        => /\ i = Len(Log(n))
           /\ Done(n)
           /\ hist[n].out = e.res

\* The first of two exception methods raised, on a manager that has
\* response methods, and the run ended with what it raised.
C24_Witness ==
    /\ Len(methods.process_exception) = 2
    /\ methods.process_response # <<>>
    /\ Len(Invoked(1, "process_exception")) = 1
    /\ Gave(1, Len(Log(1)), "process_exception", "Failure")
    /\ hist[1].out = Raised("StageError")
    /\ Log(1)[Len(Log(1))].arg # hist[1].out

\* C25: an exception that a request method raises is handled as a failure
\* of download_func is: download_func is not called; process_exception is
\* given the failure, and calls the exception methods in the order of their
\* list (the reverse of registration order), each with the failure, as long
\* as they return None; a Response or a Request that one returns is not
\* followed by another exception method; without exception methods the run
\* ends with the failure.
C25_RequestFault ==
    \A n \in Runs : \A i \in 1..Len(Log(n)) :
        LET e == Log(n)[i]
            L == Len(Log(n))
        IN
        (e.h[1] \in {"process_request", "download_func"} /\ IsFailure(e.res))
        => /\ e.h[1] = "process_request" =>
                 \A j \in 1..L : Log(n)[j].h[1] # "download_func"
           /\ IF methods.process_exception = <<>>
              THEN i = L /\ Done(n) /\ hist[n].out = e.res
              ELSE /\ i < L
                   /\ Log(n)[i + 1].h[1] = "process_exception"
           /\ \A j \in (i + 1)..L :
                 LET x == Log(n)[j] IN
                 x.h[1] = "process_exception" =>
                    /\ x.h[2] = methods.process_exception[j - i]
                    /\ x.arg = e.res
                    /\ x.res.k = "None" =>
                          \/ j < L /\ Log(n)[j + 1].h[1] = "process_exception"
                          \/ /\ j - i = Len(methods.process_exception)
                             /\ j = L /\ Done(n) /\ hist[n].out = e.res
                    /\ (IsResponse(x.res) \/ IsRequest(x.res)) =>
                          /\ \A k \in (j + 1)..L :
                                Log(n)[k].h[1] = "process_response"
                          /\ (j = L /\ Done(n)) => hist[n].out = x.res

\* The second request method raised, both exception methods were called in
\* reverse with what it raised, and the second one returned a Response,
\* which is the output of the run.
C25_Witness ==
    /\ middlewares = <<{"process_request", "process_exception"},
                       {"process_request", "process_exception"}>>
    /\ Len(Log(1)) = 4
    /\ Gave(1, 1, "process_request", "None")
    /\ Gave(1, 2, "process_request", "Failure")
    /\ Log(1)[3] = [h |-> <<"process_exception", 2>>, arg |-> Log(1)[2].res,
                    res |-> NoneV]
    /\ Log(1)[4].h = <<"process_exception", 1>>
    /\ Log(1)[4].arg = Log(1)[2].res
    /\ IsResponse(Log(1)[4].res)
    /\ hist[1].out = Log(1)[4].res

\* C27: a run calls each registered method at most once, and download_func
\* at most once; the callback process_response runs at most once: once a
\* response method has been called, the run calls nothing but the response
\* methods after it in their list.
C27_AtMostOnce ==
    \A n \in Runs : \A i, j \in 1..Len(Log(n)) :
        i < j =>
            /\ Log(n)[i].h # Log(n)[j].h
            /\ Log(n)[i].h[1] = "process_response" =>
                  /\ Log(n)[j].h[1] = "process_response"
                  /\ Place(Log(n)[i]) < Place(Log(n)[j])

\* A run on two middlewares that have the three methods called the two
\* request methods, download_func, the two exception methods and the two
\* response methods.
C27_Witness ==
    /\ middlewares = <<AllCaps, AllCaps>>
    /\ Done(1)
    /\ Len(Log(1)) = 7
    /\ Invoked(1, "process_request") = <<1, 2>>
    /\ Invoked(1, "download_func") = <<0>>
    /\ Invoked(1, "process_exception") = <<2, 1>>
    /\ Invoked(1, "process_response") = <<2, 1>>

(***************************************************************************)
(* Properties of runs in progress together (SpecRuns, SpecRunsOne).        *)
(***************************************************************************)
\* C18: while a run is suspended, every other suspended run can be resumed
\* with the result of the call it awaits; and a run whose calls complete
\* ends, whether the calls of the other runs complete or not.
C18_NoBlocking ==
    /\ [](\A n \in Runs, m \in Runs :
            (n # m /\ Suspended(n) /\ Suspended(m)) => ENABLED ReturnsRun(m))
    /\ Suspended(NumRuns) ~> (runs[NumRuns].pc = "done")

\* The first run is suspended at its first call since download() was
\* called; meanwhile the last run has ended, counting a response in its
\* last step.
C18_Witness ==
    /\ runs[1].pc = "process_request"
    /\ runs[NumRuns].pc = "done"
    /\ last.op = "track"
    /\ ~last.was

\* C19 (as claimed): whatever the order of the steps of the runs and of
\* the release callbacks, whenever no release callback is between its read
\* and its store the counter is the sum of the bytes counted and not yet
\* released: no addition and no subtraction is lost.
\* The code guards neither "+=" nor "-=": a response counted between the
\* read and the store of a release callback is lost by the store.
C19_NoLostUpdate ==
    discounting = <<>> => response_active_size = SumLen(tracked)

C11_ScenarioB ==
    \A n \in Runs :
        /\ middlewares = <<{"process_request"}>>
        /\ Done(n)
        /\ Gave(n, 1, "process_request", "Response")
        => /\ hist[n].out = Log(n)[1].res
           /\ Len(Log(n)) = 1
           /\ hist[n].delta = BodyLen(Log(n)[1].res.id)

\* C11 (amended): a Response that a request method returns is passed to
\* _count_response_size, download_func is not called, and the Response is
\* the argument of the first response method, or the output of the run when
\* there is none; the run has then added the length of its body to the size
\* if the Response was not in the WeakSet, and nothing if it was.
C11_ResponseFromRequestMethod ==
    \A n \in Runs : \A i \in 1..Len(Log(n)) :
        Gave(n, i, "process_request", "Response") =>
            LET R == Log(n)[i].res IN
            /\ hist[n].tracks # <<>>
            /\ hist[n].tracks[1] = R.id
            /\ \A j \in 1..Len(Log(n)) : Log(n)[j].h[1] # "download_func"
            /\ IF methods.process_response = <<>>
               THEN /\ i = Len(Log(n))
                    /\ Done(n)
                    /\ hist[n].out = R
                    /\ hist[n].delta = IF hist[n].added = <<R.id>>
                                       THEN BodyLen(R.id) ELSE 0
                    /\ hist[n].added \in {<<R.id>>, <<>>}
               ELSE /\ i < Len(Log(n))
                    /\ Log(n)[i + 1].h =
                          <<"process_response", methods.process_response[1]>>
                    /\ Log(n)[i + 1].arg = R

\* The only method, a process_request, returns to the second call the
\* Response that it returned to the first one: nothing is added.
C11_Witness ==
    /\ middlewares = <<{"process_request"}>>
    /\ hist[1].calls = 2
    /\ Done(1)
    /\ Gave(1, 1, "process_request", "Response")
    /\ hist[1].out = Log(1)[1].res
    /\ hist[1].added = <<>>
    /\ hist[1].delta = 0

(***************************************************************************)
(* Properties of the feed exporter (SpecFeeds).                            *)
(***************************************************************************)
\* The calls of start_exporting and finish_exporting on the exporter of a
\* slot.
StartsAndFinishes(slot) ==
    SelectSeq(slot.exporter, LAMBDA c : c # "export_item")

\* C23 (as claimed): close_spider calls storage.store once for every slot,
\* whatever the slots before it hold.
\* The code returns from the loop at the first slot without items whose
\* store_empty is off: the slots after it are neither finished nor stored.
C23_EverySlotStored ==
    spider = "closed" =>
        \A i \in 1..Len(slots) :
            SelectSeq(slots[i].storage, LAMBDA c : c = "store") = <<"store">>

\* C30: on the exporter of a slot the calls of start_exporting and
\* finish_exporting alternate, the first being start_exporting; the flag of
\* the slot tells whether the last of them was start_exporting.
C30_Alternate ==
    \A i \in 1..Len(slots) :
        LET c == StartsAndFinishes(slots[i]) IN
        /\ \A k \in 1..Len(c) :
              c[k] = IF k % 2 = 1 THEN "start_exporting" ELSE "finish_exporting"
        /\ slots[i].exporting <=> Len(c) % 2 = 1

\* After close_spider: a slot that store_empty started at open_spider and a
\* slot that the first item started have both exported MaxItems items and
\* were finished.
C30_Witness ==
    /\ spider = "closed"
    /\ Len(slots) >= 2
    /\ slots[1].store_empty /\ ~slots[2].store_empty
    /\ \A i \in 1..2 :
          /\ slots[i].itemcount = MaxItems
          /\ StartsAndFinishes(slots[i]) = <<"start_exporting", "finish_exporting">>
          /\ Len(slots[i].exporter) = MaxItems + 2

(***************************************************************************)
(* Properties of the duplicates filter (SpecDupes).                        *)
(***************************************************************************)
\* C28: request_seen returns True exactly when the fingerprint of the
\* request was that of an earlier call or was loaded from requests.seen;
\* no fingerprint leaves the set; and no fingerprint is written to the file
\* that the file or an earlier call has given the filter.
C28_SeenBefore ==
    /\ [](\A i \in 1..Len(seen.calls) :
            seen.calls[i].res = "True" <=>
                \/ seen.calls[i].fp \in seen.loaded
                \/ \E j \in 1..(i - 1) : seen.calls[j].fp = seen.calls[i].fp)
    /\ [](\A i, j \in 1..Len(file.lines) :
            i # j => Rstrip(file.lines[i]) # Rstrip(file.lines[j]))
    /\ [](file.path =>
            {Rstrip(file.lines[i]) : i \in 1..Len(file.lines)} = fingerprints)
    /\ [][fingerprints \subseteq fingerprints']_vars

\* A filter that loaded one fingerprint from requests.seen was asked about
\* it, then twice about another: the answers are True, None, True, and the
\* file has one line more.
C28_Witness ==
    /\ file.path
    /\ seen.loaded = {1}
    /\ Len(seen.calls) = 3
    /\ seen.calls[1] = [fp |-> 1, res |-> "True"]
    /\ seen.calls[2] = [fp |-> 2, res |-> "None"]
    /\ seen.calls[3] = [fp |-> 2, res |-> "True"]
    /\ file.lines = <<Line(1), Line(2)>>

(***************************************************************************)
(* Properties of the offsite middleware (SpecOffsite).                     *)
(***************************************************************************)
\* The call i of process_request was filtered.
Filtered(i) == ~(offsite[i].req.dont_filter \/ ShouldFollow(offsite[i].req))

\* The host names of the calls 1..i that were filtered.
FilteredHosts(i) ==
    {offsite[j].req.hostname : j \in {k \in 1..i : Filtered(k)}} \ {NoHost}

\* C29: process_request of a request with dont_filter, or whose host
\* host_regex matches, returns None and leaves the stats as they were; of
\* any other request it raises IgnoreRequest and adds one to
\* offsite/filtered, and one to offsite/domains when its host name was not
\* that of a request filtered before; offsite/domains is the number of
\* distinct host names filtered, and the size of domains_seen.
C29_Offsite ==
    /\ \A i \in 1..Len(offsite) :
          LET c == offsite[i] IN
          IF ~Filtered(i)
          THEN c.res = "None" /\ c.after = c.before
          ELSE /\ c.res = "IgnoreRequest"
               /\ c.after.filtered = c.before.filtered + 1
               /\ c.after.domains = c.before.domains
                     + Cardinality(FilteredHosts(i) \ FilteredHosts(i - 1))
    /\ stats.filtered = Cardinality({i \in 1..Len(offsite) : Filtered(i)})
    /\ stats.domains = Cardinality(FilteredHosts(Len(offsite)))
    /\ stats.domains = Cardinality(domains_seen)

\* With a.com allowed: a request to www.a.com was let through, two to b.org
\* were filtered, and the domain was counted once.
C29_Witness ==
    /\ host_regex.domains = {<<"a", "com">>}
    /\ Len(offsite) = 3
    /\ offsite[1].req = [dont_filter |-> FALSE, hostname |-> <<"www", "a", "com">>]
    /\ offsite[1].res = "None"
    /\ offsite[2].req = [dont_filter |-> FALSE, hostname |-> <<"b", "org">>]
    /\ offsite[3].req = offsite[2].req
    /\ offsite[3].res = "IgnoreRequest"
    /\ stats = [filtered |-> 2, domains |-> 1]
    /\ domains_seen = {<<"b", "org">>}

====
